---- MODULE Spec2Model ----
(***************************************************************************)
(* Model of the evolution engine of ragas (src/ragas/testset/evolutions.py)*)
(* Evolution / SimpleEvolution, with the node and question filters, run    *)
(* as coroutines that suspend at the awaited filter calls.  The document   *)
(* store (ragas.testset.docstore) is a collaborator: random sampling and   *)
(* PREV/NEXT adjacency inside a document.                                  *)
(* Also modelled: MultiContextEvolution, the graph queries of             *)
(* src/ragas/testsetv3/graph.py and make_batches of src/ragas/metrics/     *)
(* base.py, each under a specification of its own.                         *)
(***************************************************************************)
EXTENDS Integers, Sequences, FiniteSets, TLC

\* ---------------------------------------------------------------- bounds
NumNodes == 4
MaxTriesBound == 2
MaxNodeFails == 2
MaxRequests == 2
ConcMaxTries == 1
MaxScore == 20
MaxTotalSize == 12
MaxBatchSize == 5

\* ------------------------------------------------------------- constants
\* NodeFilter.threshold = 7.5, scores are counted in halves (7.5 = 15/2)
threshold == 15
\* Evolution.max_tries = 5
DefaultMaxTries == 5

Nodes == 1..NumNodes
None == 0
NoText == "none"
Tasks == {1, 2}
Objects == {1, 2}
Questions == {"q1", "q2"}
\* score field of the node filter's JSON answer, in halves; NoScore: no field
NoScore == -1
NodeResponses == {NoScore, 0, 14, 15, 18}
\* verdict field of the question filter's JSON answer; NoText: no field
Verdicts == {"Yes", "No", "", NoText}

VARIABLES
    docstore,       \* the document store: doc[n] is the document of node n
    max_tries,      \* Evolution.max_tries
    ev,             \* per Evolution object: nodes, root_node (_root_node), tries (_tries)
    obj,            \* the Evolution object each request (task) runs on
    pc,             \* where each request's coroutine is suspended
    merged_node,    \* local merged_node of aevolve (the merged nodes, in order)
    filter_arg,     \* the node handed to node_filter.afilter (self.nodes[0])
    seed_question,  \* local seed_question of aevolve
    verdict,        \* verdict field of the latest question filter answer
    result,         \* the value returned by aevolve
    log,            \* per request: store and service calls made, in order
    req,            \* per task: number of requests started so far
    gen_context,    \* context text of the latest seed question prompt
    nf,             \* a NodeFilter and its latest call: threshold, response, passed
    qf,             \* a QuestionFilter's latest call: verdict, valid
    similar,        \* the store's SIMILAR neighbours of each node, best first
    mc,             \* the fields and locals of a MultiContextEvolution request
    content,        \* the store's nodes: content[n] is the page_content held for n
    checked,        \* per request: the nodes the node filter has passed so far
    gq,             \* the latest graph query: its arguments and what it returned
    mb              \* a make_batches call: total_size, batch_size, batches

vars == <<docstore, max_tries, ev, obj, pc, merged_node, filter_arg,
          seed_question, verdict, result, log, req, gen_context, nf, qf,
          similar, mc, content, checked, gq, mb>>

\* the variables of the filter calls and of the multi-context evolution
filters == <<nf, qf>>
multi == <<similar, mc>>
\* the variables of the graph queries and of the batching
pure == <<gq, mb>>

\* ------------------------------------------------------- document store
\* documents are runs of consecutive nodes; a break after b separates b, b+1
DocOf(breaks) == [n \in Nodes |-> 1 + Cardinality({b \in breaks : b < n})]
Stores == {[doc |-> DocOf(breaks)] : breaks \in SUBSET (1..(NumNodes - 1))}

\* the stores of the concurrent runs: one document, or one document per node
ConcStores == {[doc |-> DocOf({})], [doc |-> DocOf(1..(NumNodes - 1))]}

\* docstore.get_adjacent(node, direction)
get_adjacent(store, node, direction) ==
    LET m == IF direction = "PREV" THEN node - 1 ELSE node + 1
    IN  IF m \in Nodes /\ store.doc[m] = store.doc[node] THEN m ELSE None

\* docstore.get_random_nodes(k=1)[0]: any node of the store
get_random_nodes == Nodes

\* ------------------------------------------------------------------- text
\* a text is a sequence of tokens; node n has the one-token content Contents[n]
Contents == <<"n1", "n2", "n3", "n4", "n5", "n6", "n7", "n8">>
Whitespace == {" ", "\n\n"}

\* Node.page_content
page_content(n) == <<Contents[n]>>

\* str.join
RECURSIVE join(_, _)
join(sep, texts) ==
    IF texts = <<>> THEN <<>>
    ELSE IF Len(texts) = 1 THEN texts[1]
    ELSE texts[1] \o sep \o join(sep, Tail(texts))

\* str.strip: drop the whitespace at both ends
RECURSIVE lstrip(_)
lstrip(text) ==
    IF text # <<>> /\ text[1] \in Whitespace THEN lstrip(Tail(text)) ELSE text
RECURSIVE rstrip(_)
rstrip(text) ==
    IF text # <<>> /\ text[Len(text)] \in Whitespace
    THEN rstrip(SubSeq(text, 1, Len(text) - 1)) ELSE text
strip(text) == rstrip(lstrip(text))

\* str(node): a Node formatted into a prompt as an object, not as its content
node_str(n) == <<"Node(">> \o page_content(n) \o <<")">>

\* ---------------------------------------------------------------- filters
\* score.get("score", 0)
score_get(resp) == IF resp = NoScore THEN 0 ELSE resp

\* NodeFilter.afilter with threshold th: score.get("score", 0) >= self.threshold
NodeFilter_passed_strict(resp, th) == score_get(resp) > th
NodeFilter_passed(resp, th) == score_get(resp) >= th

\* NodeFilter.afilter with the default threshold
NodeFilter_afilter(resp) == NodeFilter_passed(resp, threshold)

\* QuestionFilter.afilter: json_results.get("verdict") != "No"
QuestionFilter_afilter_inverted(v) == v = "No"
QuestionFilter_afilter_yes_only(v) == v = "Yes"
QuestionFilter_afilter(v) == v # "No"

\* what the node filter answered, as recorded in the call log
node_event(resp) == IF NodeFilter_afilter(resp) THEN "node_pass" ELSE "node_fail"

\* aevolve: if not passed["score"]: resample and retry
node_rejected_inverted(passed) == passed
node_rejected(passed) == ~passed

\* --------------------------------------------------------------- Evolution
\* c is the state a request works on: the fields of its Evolution object
\* and the request's call log.
Ctx(t) == [nodes |-> ev[obj[t]].nodes, root_node |-> ev[obj[t]].root_node,
           tries |-> ev[obj[t]].tries, log |-> log[t]]

Fields(c) == [nodes |-> c.nodes, root_node |-> c.root_node, tries |-> c.tries]

Logged(c, e) == [c EXCEPT !.log = Append(@, e)]

\* Evolution.merged_nodes: the contents of self.nodes joined in list order
merged_nodes_reversed(c) ==
    join(<<" ">>, [i \in 1..Len(c.nodes) |->
                      page_content(c.nodes[Len(c.nodes) + 1 - i])])
merged_nodes(c) ==
    join(<<" ">>, [i \in 1..Len(c.nodes) |-> page_content(c.nodes[i])])

\* merged_nodes builds a new Node from the joined contents: the nodes it
\* reads keep their page_content, and the new node is not put into the store
store_after_merge_inplace(cont, c) == [cont EXCEPT ![c.nodes[1]] = merged_nodes(c)]
store_after_merge(cont, c) == cont

\* no except clause in aevolve or aretry_evolve: an error raised by a store
\* or service call leaves the request as it is, the fields are not touched
raised_counted(c) == [Logged(c, "error") EXCEPT !.tries = @ + 1]
raised(c) == Logged(c, "error")

\* aretry_evolve: if update_count: self._tries += 1
aretry_count_always(c, update_count) == [c EXCEPT !.tries = @ + 1]
aretry_count(c, update_count) ==
    IF update_count THEN [c EXCEPT !.tries = @ + 1] ELSE c

\* aretry_evolve: if self._tries > self.max_tries: raise ValueError
tries_exceeded_early(c, max) == c.tries >= max
tries_exceeded_late(c, max) == c.tries > max + 1
tries_exceeded(c, max) == c.tries > max

\* aevolve: if self._tries == 0: sample one node, it is nodes and _root_node
aevolve_enter_twice(c, s) ==
    IF c.tries = 0
    THEN [Logged(Logged(c, "sample"), "sample") EXCEPT !.nodes = <<s>>, !.root_node = s]
    ELSE c
aevolve_enter(c, s) ==
    IF c.tries = 0
    THEN [Logged(c, "sample") EXCEPT !.nodes = <<s>>, !.root_node = s]
    ELSE c

\* the nodes a retry of aevolve may sample at entry: it samples only when
\* _tries is still 0, and s1 stands for "no sampling" otherwise
retry_samples(c, update_count, s1) ==
    IF ~update_count /\ c.tries = 0 THEN get_random_nodes ELSE {s1}

\* aevolve, node check failed: self.nodes = docstore.get_random_nodes(k=1)
resample_nodes(c, s) == [Logged(c, "sample") EXCEPT !.nodes = <<s>>]

\* SimpleEvolution._get_more_adjacent_nodes
get_more_adjacent_nodes_next_first(c, store, s) ==
    LET c1 == Logged(c, "next")
        next_adjacent_node == get_adjacent(store, c.root_node, "NEXT")
    IN  IF next_adjacent_node = None
        THEN LET c2 == Logged(c1, "prev")
                 prev_adjacent_node == get_adjacent(store, c.root_node, "PREV")
             IN  IF prev_adjacent_node # None
                 THEN [c2 EXCEPT !.nodes = <<prev_adjacent_node>> \o @]
                 ELSE [Logged(c2, "sample") EXCEPT !.nodes = <<s>>, !.root_node = s]
        ELSE [c1 EXCEPT !.nodes = Append(@, next_adjacent_node)]
get_more_adjacent_nodes_replace(c, store, s) ==
    LET c1 == Logged(c, "prev")
        prev_adjacent_node == get_adjacent(store, c.root_node, "PREV")
    IN  IF prev_adjacent_node = None
        THEN LET c2 == Logged(c1, "next")
                 next_adjacent_node == get_adjacent(store, c.root_node, "NEXT")
             IN  IF next_adjacent_node # None
                 THEN [c2 EXCEPT !.nodes = <<next_adjacent_node>>]
                 ELSE [Logged(c2, "sample") EXCEPT !.nodes = <<s>>, !.root_node = s]
        ELSE [c1 EXCEPT !.nodes = <<prev_adjacent_node>>]
get_more_adjacent_nodes_keep(c, store, s) ==
    LET c1 == Logged(c, "prev")
        prev_adjacent_node == get_adjacent(store, c.root_node, "PREV")
    IN  IF prev_adjacent_node = None
        THEN LET c2 == Logged(c1, "next")
                 next_adjacent_node == get_adjacent(store, c.root_node, "NEXT")
             IN  IF next_adjacent_node # None
                 THEN [c2 EXCEPT !.nodes = Append(@, next_adjacent_node)]
                 ELSE c2
        ELSE [c1 EXCEPT !.nodes = <<prev_adjacent_node>> \o @]
get_more_adjacent_nodes(c, store, s) ==
    LET c1 == Logged(c, "prev")
        prev_adjacent_node == get_adjacent(store, c.root_node, "PREV")
    IN  IF prev_adjacent_node = None
        THEN LET c2 == Logged(c1, "next")
                 next_adjacent_node == get_adjacent(store, c.root_node, "NEXT")
             IN  IF next_adjacent_node # None
                 THEN [c2 EXCEPT !.nodes = Append(@, next_adjacent_node)]
                 ELSE [Logged(c2, "sample") EXCEPT !.nodes = <<s>>, !.root_node = s]
        ELSE [c1 EXCEPT !.nodes = <<prev_adjacent_node>> \o @]

\* ----------------------------------------------------------------- helpers
Count(sq, e) == Cardinality({i \in 1..Len(sq) : sq[i] = e})
Range(sq) == {sq[i] : i \in 1..Len(sq)}
Last(sq) == sq[Len(sq)]

\* node check failures so far, over all requests in flight
NodeFails == Count(log[1], "node_fail") + Count(log[2], "node_fail")

\* ------------------------------------------------------- testsetv3 graph
\* NodeType and NodeLevel
NodeType == {"doc", "chunk"}
NodeLevel == {"LEVEL_0", "LEVEL_1", "LEVEL_2"}

\* an argument left at its default None
NoArg == "None"

\* float() of the numerals used as property values, in tenths
float(v) == CASE v = "3" -> 30 [] v = "5" -> 50 [] v = "5.0" -> 50 [] v = "7" -> 70

\* the nodes and relationships of info.context, in their list order;
\* properties is a dict, <<>> is the empty one
NoProps == <<>>
GraphNodes ==
    <<[id |-> "a", label |-> "doc", level |-> "LEVEL_0",
       properties |-> [topic |-> "x", score |-> "5"]],
      [id |-> "b", label |-> "chunk", level |-> "LEVEL_1",
       properties |-> [topic |-> "x", score |-> "7"]],
      [id |-> "c", label |-> "chunk", level |-> "LEVEL_1",
       properties |-> [topic |-> "y"]],
      [id |-> "d", label |-> "doc", level |-> "LEVEL_2",
       properties |-> NoProps]>>
GraphNode(i) == CHOOSE n \in Range(GraphNodes) : n.id = i
Rel(i, src, tgt, lab, props) ==
    [id |-> i, source |-> GraphNode(src), target |-> GraphNode(tgt),
     label |-> lab, properties |-> props]
Relationships ==
    <<Rel("r1", "a", "b", "SIMILAR", [score |-> "7"]),
      Rel("r2", "b", "a", "SIMILAR", [score |-> "5.0"]),
      Rel("r3", "a", "c", "NEXT", NoProps),
      Rel("r4", "a", "d", "SIMILAR", [score |-> "5"]),
      Rel("r5", "a", "b", "SIMILAR", [score |-> "3"]),
      Rel("r6", "c", "d", "NEXT", NoProps)>>

\* Python truth of a string argument: None and "" are false
truthy(x) == x \notin {NoArg, ""}

\* a TargetFilter with no field given selects every relationship
NoTargetFilter ==
    [label |-> NoArg, property_key |-> NoArg, property_value |-> NoArg,
     comparison |-> NoArg]

\* resolve_relationships: rel.properties and property_key in rel.properties
\* and the comparison of the two values
property_test_ge(props, key, value, comparison) ==
    /\ props # NoProps
    /\ key \in DOMAIN props
    /\ CASE comparison = "gt" -> float(props[key]) >= float(value)
         [] comparison = "lt" -> float(props[key]) < float(value)
         [] comparison = "eq" -> props[key] = value
property_test(props, key, value, comparison) ==
    /\ props # NoProps
    /\ key \in DOMAIN props
    /\ CASE comparison = "gt" -> float(props[key]) > float(value)
         [] comparison = "lt" -> float(props[key]) < float(value)
         [] comparison = "eq" -> props[key] = value

\* resolve_relationships: the test of the target filter on one relationship
target_test(rel, tf) ==
    /\ ~truthy(tf.label) \/ rel.target.label = tf.label
    /\ \/ ~truthy(tf.property_key)
       \/ /\ tf.property_key \in DOMAIN rel.target.properties
          /\ tf.comparison \in {"gt", "lt", "eq"}
          /\ property_test(rel.target.properties, tf.property_key,
                           tf.property_value, tf.comparison)

\* resolve_relationships: with a property key and value, a comparison other
\* than gt, lt, eq raises ValueError("Invalid comparison operator")
invalid_comparison(a) ==
    /\ truthy(a.property_key) /\ truthy(a.property_value)
    /\ a.comparison \notin {"gt", "lt", "eq"}

\* Node.resolve_relationships: the relationships returned when no error is
\* raised
resolve_relationships(self, relationships, a) ==
    LET own == SelectSeq(relationships, LAMBDA rel : rel.source.id = self)
        by_label ==
            IF truthy(a.label)
            THEN SelectSeq(own, LAMBDA rel : rel.label = a.label)
            ELSE own
        by_property ==
            IF truthy(a.property_key) /\ truthy(a.property_value)
            THEN SelectSeq(by_label, LAMBDA rel :
                     property_test(rel.properties, a.property_key,
                                   a.property_value, a.comparison))
            ELSE by_label
    IN  IF a.target_filter # NoTargetFilter
        THEN SelectSeq(by_property, LAMBDA rel : target_test(rel, a.target_filter))
        ELSE by_property

\* Query.resolve_filter_nodes: ids is a list of strings, <<>> when it is
\* None or empty (both are false in "if ids"); the label and the
\* level filter read nodes, the property filter reads filtered_nodes
resolve_filter_nodes(nodes, a) ==
    LET by_ids ==
            IF a.ids # <<>>
            THEN SelectSeq(nodes, LAMBDA node : node.id \in Range(a.ids))
            ELSE nodes
        by_label ==
            IF truthy(a.label)
            THEN SelectSeq(nodes, LAMBDA node : node.label = a.label)
            ELSE by_ids
        by_level ==
            IF truthy(a.level)
            THEN SelectSeq(nodes, LAMBDA node : node.level = a.level)
            ELSE by_label
    IN  IF truthy(a.property_key) /\ truthy(a.property_value)
        THEN SelectSeq(by_level, LAMBDA node :
                 /\ node.properties # NoProps
                 /\ a.property_key \in DOMAIN node.properties
                 /\ node.properties[a.property_key] = a.property_value)
        ELSE by_level

\* ------------------------------------------------------------ make_batches
\* range(lo, hi) as the sequence of its elements
range(lo, hi) == [i \in 1..(hi - lo) |-> lo + i - 1]

\* make_batches: num_batches full ranges, then the tail if there is one
make_batches_no_tail(total_size, batch_size) ==
    LET num_batches == total_size \div batch_size
    IN  [k \in 1..num_batches |->
            range((k - 1) * batch_size, (k - 1) * batch_size + batch_size)]
make_batches(total_size, batch_size) ==
    LET tail == total_size % batch_size
        num_batches == total_size \div batch_size
        batches == [k \in 1..num_batches |->
                      range((k - 1) * batch_size, (k - 1) * batch_size + batch_size)]
    IN  IF tail # 0
        THEN Append(batches, range(batch_size * num_batches,
                                   batch_size * num_batches + tail))
        ELSE batches

\* Metric.get_batches
get_batches(dataset_size, batch_size) == make_batches(dataset_size, batch_size)

\* the nodes passed by the node filter are recorded where a property reads
\* them: NotTracked stands for a history that is not kept
NotTracked == {None}
track(chk, n) == IF chk = NotTracked THEN chk ELSE chk \cup {n}
NoHistory == checked = [t \in Tasks |-> NotTracked]

\* no graph query and no batching is involved
NoQuery ==
    [op |-> "none", self |-> NoArg, ids |-> <<>>, label |-> NoArg,
     level |-> NoArg, property_key |-> NoArg, property_value |-> NoArg,
     comparison |-> NoArg, target_filter |-> NoTargetFilter,
     relationships |-> Relationships, nodes |-> GraphNodes, result |-> <<>>,
     error |-> FALSE]
NoBatches == [total_size |-> 0, batch_size |-> 1, called |-> FALSE, batches |-> <<>>]
PureIdle ==
    /\ NoHistory
    /\ gq = NoQuery
    /\ mb = NoBatches

\* ------------------------------------------------------------------- Init
InitCommon ==
    /\ ev = [o \in Objects |-> [nodes |-> <<>>, root_node |-> None, tries |-> 0]]
    /\ merged_node = [t \in Tasks |-> <<>>]
    /\ filter_arg = [t \in Tasks |-> None]
    /\ seed_question = [t \in Tasks |-> NoText]
    /\ verdict = [t \in Tasks |-> NoText]
    /\ result = [t \in Tasks |-> NoText]
    /\ log = [t \in Tasks |-> <<>>]
    /\ req = [t \in Tasks |-> 0]
    /\ gen_context = [t \in Tasks |-> <<>>]
    /\ content = [n \in Nodes |-> page_content(n)]

\* no filter is called on its own
FiltersIdle ==
    /\ nf = [threshold |-> threshold, called |-> FALSE,
             response |-> NoScore, passed |-> FALSE]
    /\ qf = [called |-> FALSE, verdict |-> NoText, valid |-> TRUE]

\* no MultiContextEvolution is involved
NoPrompt == [question |-> NoText, context1 |-> <<>>, context2 |-> <<>>]
NoMulti ==
    [max_tries |-> DefaultMaxTries, root_node |-> None, similar_arg |-> None,
     prompt |-> NoPrompt, reconciled |-> <<>>, question |-> <<>>,
     compress_in |-> <<>>, compressed |-> <<>>, result |-> <<>>]
MultiIdle ==
    /\ similar = [n \in Nodes |-> <<>>]
    /\ mc = NoMulti

\* one request on a freshly constructed SimpleEvolution
Init ==
    /\ InitCommon
    /\ PureIdle
    /\ FiltersIdle
    /\ MultiIdle
    /\ docstore \in Stores
    /\ max_tries \in 0..MaxTriesBound
    /\ obj = [t \in Tasks |-> t]
    /\ pc = [t \in Tasks |-> IF t = 1 THEN "INITIAL" ELSE "IDLE"]

\* ---------------------------------------------------------------- actions
\* the body of aevolve from its entry to the awaited node filter call
Suspend(t, c) ==
    /\ ev' = [ev EXCEPT ![obj[t]] = Fields(c)]
    /\ log' = [log EXCEPT ![t] = c.log]
    /\ merged_node' = [merged_node EXCEPT ![t] = merged_nodes(c)]
    /\ filter_arg' = [filter_arg EXCEPT ![t] = c.nodes[1]]
    /\ content' = store_after_merge(content, c)
    /\ pc' = [pc EXCEPT ![t] = "NODE_CHECK"]

\* aretry_evolve: count, raise "Max tries reached" or run aevolve again
aretry_evolve(t, c, update_count, s) ==
    LET c1 == aretry_count(c, update_count)
    IN  IF tries_exceeded(c1, max_tries)
        THEN /\ ev' = [ev EXCEPT ![obj[t]] = Fields(c1)]
             /\ log' = [log EXCEPT ![t] = c1.log]
             /\ pc' = [pc EXCEPT ![t] = "EXHAUSTED"]
             /\ UNCHANGED <<merged_node, filter_arg, content>>
        ELSE Suspend(t, aevolve_enter(c1, s))

\* a request calls aevolve
Start(t) ==
    /\ pc[t] = "INITIAL"
    /\ \E s \in get_random_nodes : Suspend(t, aevolve_enter(Ctx(t), s))
    /\ req' = [req EXCEPT ![t] = @ + 1]
    /\ UNCHANGED <<docstore, max_tries, obj, seed_question, verdict, result,
                   gen_context, filters, multi,
                   checked, pure>>

\* the node filter answers below the threshold: resample, retry for free
NodeCheckFail(t) ==
    /\ pc[t] = "NODE_CHECK"
    /\ NodeFails < MaxNodeFails
    /\ \E resp \in NodeResponses, s1 \in get_random_nodes :
       \E s2 \in retry_samples(Ctx(t), FALSE, s1) :
         /\ node_rejected(NodeFilter_afilter(resp))
         /\ aretry_evolve(t, resample_nodes(Logged(Ctx(t), node_event(resp)), s1),
                          FALSE, s2)
    /\ UNCHANGED <<docstore, max_tries, obj, seed_question, verdict, result, req,
                   gen_context, filters, multi,
                   checked, pure>>

\* the node filter passes: generate the seed question, await the question filter
NodeCheckPass(t) ==
    /\ pc[t] = "NODE_CHECK"
    /\ \E resp \in NodeResponses, q \in Questions :
         /\ ~node_rejected(NodeFilter_afilter(resp))
         /\ seed_question' = [seed_question EXCEPT ![t] = q]
         /\ log' = [log EXCEPT ![t] = Append(Append(@, node_event(resp)), "gen")]
    /\ pc' = [pc EXCEPT ![t] = "QUESTION_CHECK"]
    /\ gen_context' = [gen_context EXCEPT ![t] = merged_node[t]]
    /\ checked' = [checked EXCEPT ![t] = track(@, filter_arg[t])]
    /\ UNCHANGED <<docstore, max_tries, ev, obj, merged_node, filter_arg,
                   verdict, result, req, filters, multi,
                   content, pure>>

\* the question filter rejects: expand the context and retry
QuestionCheckFail(t) ==
    /\ pc[t] = "QUESTION_CHECK"
    /\ \E v \in Verdicts, s1 \in get_random_nodes :
       \E s2 \in retry_samples(Ctx(t), TRUE, s1) :
         /\ ~QuestionFilter_afilter(v)
         /\ verdict' = [verdict EXCEPT ![t] = v]
         /\ aretry_evolve(t, get_more_adjacent_nodes(Logged(Ctx(t), "q_fail"),
                                                     docstore, s1), TRUE, s2)
    /\ UNCHANGED <<docstore, max_tries, obj, seed_question, result, req,
                   gen_context, filters, multi,
                   checked, pure>>

\* the question filter accepts: return the seed question
QuestionCheckPass(t) ==
    /\ pc[t] = "QUESTION_CHECK"
    /\ \E v \in Verdicts :
         /\ QuestionFilter_afilter(v)
         /\ verdict' = [verdict EXCEPT ![t] = v]
    /\ result' = [result EXCEPT ![t] = seed_question[t]]
    /\ log' = [log EXCEPT ![t] = Append(@, "q_pass")]
    /\ pc' = [pc EXCEPT ![t] = "SUCCESS"]
    /\ UNCHANGED <<docstore, max_tries, ev, obj, merged_node, filter_arg,
                   seed_question, req, gen_context, filters, multi,
                   content, checked, pure>>

Next ==
    \/ Start(1)
    \/ NodeCheckFail(1)
    \/ NodeCheckPass(1)
    \/ QuestionCheckFail(1)
    \/ QuestionCheckPass(1)

Spec == Init /\ [][Next]_vars

\* a further request on the same Evolution object, after the earlier one
\* returned or raised: aevolve is called again, its locals are new
Restart(t) ==
    /\ pc[t] \in {"SUCCESS", "EXHAUSTED"}
    /\ req[t] < MaxRequests
    /\ \E s \in get_random_nodes :
         Suspend(t, aevolve_enter([Ctx(t) EXCEPT !.log = <<>>], s))
    /\ req' = [req EXCEPT ![t] = @ + 1]
    /\ seed_question' = [seed_question EXCEPT ![t] = NoText]
    /\ verdict' = [verdict EXCEPT ![t] = NoText]
    /\ result' = [result EXCEPT ![t] = NoText]
    /\ gen_context' = [gen_context EXCEPT ![t] = <<>>]
    /\ checked' = [checked EXCEPT ![t] = IF @ = NotTracked THEN @ ELSE {}]
    /\ UNCHANGED <<docstore, max_tries, obj, filters, multi,
                   pure>>

NextReuse ==
    \/ Next
    \/ Restart(1)

\* successive requests on one Evolution object
SpecReuse == Init /\ [][NextReuse]_vars

\* two requests, on two Evolution objects or on the same one
InitConc ==
    /\ InitCommon
    /\ PureIdle
    /\ FiltersIdle
    /\ MultiIdle
    /\ docstore \in ConcStores
    /\ max_tries \in 0..ConcMaxTries
    /\ obj \in {o \in [Tasks -> Objects] : o[1] = 1}
    /\ pc = [t \in Tasks |-> "INITIAL"]

NextConc ==
    \E t \in Tasks :
        \/ Start(t)
        \/ NodeCheckFail(t)
        \/ NodeCheckPass(t)
        \/ QuestionCheckFail(t)
        \/ QuestionCheckPass(t)

\* concurrent requests interleaving at the awaited filter calls
SpecConc == InitConc /\ [][NextConc]_vars

\* ------------------------------------------------------------- properties
QFails == Count(log[1], "q_fail")
tries1 == ev[obj[1]].tries
nodes1 == ev[obj[1]].nodes
root1 == ev[obj[1]].root_node

\* C1: in a request started with retry counter 0 the bounded-retries error
\* is raised exactly at the (max_tries + 1)-th question check failure, and
\* the retry counter then equals max_tries + 1.
C1_ExhaustedExactly ==
    /\ QFails <= max_tries + 1
    /\ (pc[1] = "EXHAUSTED") <=> (QFails = max_tries + 1)
    /\ pc[1] = "EXHAUSTED" => tries1 = max_tries + 1

C1_Witness ==
    /\ pc[1] = "EXHAUSTED"
    /\ max_tries >= 1
    /\ Count(log[1], "node_fail") >= 1

\* C2 (as stated): the retry counter never decreases and never exceeds
\* max_tries, the state in which exhaustion is reported included.
C2_BoundedByMax ==
    [][/\ ev'[obj[1]].tries >= tries1
       /\ ev'[obj[1]].tries <= max_tries]_vars

\* C2 (amended): the retry counter never decreases and never exceeds
\* max_tries + 1; it exceeds max_tries only where exhaustion is reported.
C2_BoundedByMaxPlusOne ==
    [][/\ ev'[obj[1]].tries >= tries1
       /\ ev'[obj[1]].tries <= max_tries + 1
       /\ ev'[obj[1]].tries > max_tries => pc'[1] = "EXHAUSTED"]_vars

C2_Witness ==
    /\ tries1 = max_tries + 1
    /\ max_tries = MaxTriesBound

\* the step of request 1 in which its node check fails
NodeFailStep ==
    /\ pc[1] = "NODE_CHECK"
    /\ Len(log'[1]) > Len(log[1])
    /\ log'[1][Len(log[1]) + 1] = "node_fail"

\* C3: a node check failure leaves the retry counter as it is and raises no
\* bounded-retries error; a request without question check failures
\* completes with retry counter 0.
C3_NodeFailFree ==
    [][/\ NodeFailStep => /\ ev'[obj[1]].tries = tries1
                          /\ pc'[1] # "EXHAUSTED"
       /\ (pc'[1] = "SUCCESS" /\ Count(log'[1], "q_fail") = 0)
             => ev'[obj[1]].tries = 0]_vars

C3_Witness ==
    /\ pc[1] = "SUCCESS"
    /\ Len(log[1]) >= 2
    /\ log[1][2] = "node_fail"
    /\ Count(log[1], "node_fail") >= 2
    /\ tries1 = 0

\* C4: every sampled node becomes the sole context node and the root node,
\* so at every node check and every context expansion the root node is one
\* of the context nodes.
C4_RootInContext ==
    /\ pc[1] \in {"NODE_CHECK", "QUESTION_CHECK"} => root1 \in Range(nodes1)
    /\ (pc[1] = "NODE_CHECK" /\ Last(log[1]) = "sample") => nodes1 = <<root1>>

\* the step of request 1 in which its question check fails
QuestionFailStep ==
    /\ pc[1] = "QUESTION_CHECK"
    /\ pc'[1] \in {"NODE_CHECK", "EXHAUSTED"}

\* C5: on a question check failure PREV of the root is queried first and, if
\* present, put at the front without querying NEXT; else NEXT is queried and,
\* if present, appended; else the list becomes one freshly sampled node that
\* is also the root.  In the first two cases the root stays and the list
\* grows by one.
C5_ExpansionOrder ==
    [][QuestionFailStep =>
        LET p == get_adjacent(docstore, root1, "PREV")
            n == get_adjacent(docstore, root1, "NEXT")
            nodes2 == ev'[obj[1]].nodes
            root2 == ev'[obj[1]].root_node
        IN  /\ p # None =>
                /\ log'[1] = log[1] \o <<"q_fail", "prev">>
                /\ nodes2 = <<p>> \o nodes1
                /\ root2 = root1
            /\ (p = None /\ n # None) =>
                /\ log'[1] = log[1] \o <<"q_fail", "prev", "next">>
                /\ nodes2 = nodes1 \o <<n>>
                /\ root2 = root1
            /\ (p = None /\ n = None) =>
                /\ log'[1] = log[1] \o <<"q_fail", "prev", "next", "sample">>
                /\ Len(nodes2) = 1
                /\ root2 = nodes2[1]]_vars

C5_Witness ==
    /\ pc[1] = "NODE_CHECK"
    /\ Last(log[1]) = "prev"
    /\ Count(log[1], "next") >= 1
    /\ Len(nodes1) = 2
    /\ nodes1[2] = root1
    /\ nodes1[1] = root1 - 1

\* C6: a question is returned only in SUCCESS, and it is the seed question of
\* the latest generation call, which the question filter did not answer "No".
C6_ReturnsAcceptedSeed ==
    /\ result[1] # NoText => pc[1] = "SUCCESS"
    /\ pc[1] = "SUCCESS" =>
        /\ result[1] = seed_question[1]
        /\ result[1] \in Questions
        /\ verdict[1] # "No"
        /\ Len(log[1]) >= 2
        /\ log[1][Len(log[1])] = "q_pass"
        /\ log[1][Len(log[1]) - 1] = "gen"

C6_Witness ==
    /\ pc[1] = "SUCCESS"
    /\ Count(log[1], "gen") >= 2
    /\ result[1] = "q2"

\* C7: every generation call directly follows a passed node check, every
\* question check directly follows a generation call, and a generation call
\* never follows a failed node check.
C7_StepOrder ==
    \A i \in 1..Len(log[1]) :
        /\ log[1][i] = "gen" => (i > 1 /\ log[1][i - 1] = "node_pass")
        /\ log[1][i] \in {"q_pass", "q_fail"} => (i > 1 /\ log[1][i - 1] = "gen")
        /\ (log[1][i] = "node_fail" /\ i < Len(log[1])) => log[1][i + 1] = "sample"
        /\ (log[1][i] = "node_pass" /\ i < Len(log[1])) => log[1][i + 1] = "gen"

C7_Witness ==
    /\ pc[1] = "SUCCESS"
    /\ Count(log[1], "gen") >= 2
    /\ Count(log[1], "node_fail") >= 1

\* a request that has just been started and awaits its first node check
RequestStart(t) ==
    /\ pc[t] = "NODE_CHECK"
    /\ log[t] \in {<<>>, <<"sample">>}

\* C8: every request starts with retry counter 0 and a newly sampled root
\* node that is its only context node.
C8_FreshState ==
    RequestStart(1) =>
        /\ tries1 = 0
        /\ log[1] = <<"sample">>
        /\ nodes1 = <<root1>>

\* C9: a step of one request leaves the retry counter, the root node and the
\* context nodes of every other request in flight as they are.
C9_Isolation ==
    [][\A t \in Tasks :
         (/\ pc[t] \in {"NODE_CHECK", "QUESTION_CHECK"}
          /\ pc'[t] = pc[t]
          /\ log'[t] = log[t]) => ev'[obj[t]] = ev[obj[t]]]_vars

\* a store in which no node has a PREV or a NEXT neighbour
Isolated ==
    \A n \in Nodes : /\ get_adjacent(docstore, n, "PREV") = None
                     /\ get_adjacent(docstore, n, "NEXT") = None

\* every question check failure of request 1 was followed by a resampling
ResampledOnEveryRetry ==
    \A i \in 1..Len(log[1]) :
        log[1][i] = "q_fail" =>
            /\ i + 3 <= Len(log[1])
            /\ log[1][i + 3] = "sample"

\* C10 (as stated): without adjacency and with every question rejected, a
\* fresh root is sampled on every retry and the bounded-retries error is
\* raised after max_tries question check failures.
C10_ExhaustedAfterMax ==
    (Isolated /\ pc[1] = "EXHAUSTED") =>
        /\ ResampledOnEveryRetry
        /\ QFails = max_tries

\* C10 (amended): ... the error is raised after max_tries + 1 question check
\* failures.
C10_ExhaustedAfterMaxPlusOne ==
    (Isolated /\ Count(log[1], "q_pass") = 0
              /\ pc[1] \in {"NODE_CHECK", "QUESTION_CHECK", "EXHAUSTED"}) =>
        /\ ResampledOnEveryRetry
        /\ pc[1] = "EXHAUSTED" => QFails = max_tries + 1
        /\ QFails = max_tries + 1 => pc[1] = "EXHAUSTED"

C10_Witness ==
    /\ Isolated
    /\ pc[1] = "EXHAUSTED"
    /\ max_tries = MaxTriesBound
    /\ ResampledOnEveryRetry

\* C11: when every node check passes and the first question check passes,
\* the request makes exactly one store sample, one node check, one seed
\* generation and one question check, and ends in SUCCESS with counter 0.
C11_HappyPath ==
    (/\ pc[1] = "SUCCESS"
     /\ Count(log[1], "node_fail") = 0
     /\ Count(log[1], "q_fail") = 0) =>
        /\ log[1] = <<"sample", "node_pass", "gen", "q_pass">>
        /\ tries1 = 0

C11_Witness ==
    /\ pc[1] = "SUCCESS"
    /\ log[1] = <<"sample", "node_pass", "gen", "q_pass">>
    /\ max_tries >= 1

\* C12: once the first node is sampled the node list is never empty:
\* sampling and resets leave exactly one node, PREV/NEXT expansion adds one.
C12_NodesNeverEmpty ==
    [][/\ pc'[1] # "INITIAL" => Len(ev'[obj[1]].nodes) >= 1
       /\ (Len(log'[1]) > Len(log[1]) /\ Last(log'[1]) = "sample")
             => Len(ev'[obj[1]].nodes) = 1
       /\ (QuestionFailStep /\ Last(log'[1]) \in {"prev", "next"})
             => Len(ev'[obj[1]].nodes) = Len(nodes1) + 1]_vars

C12_Witness ==
    /\ Len(nodes1) = 1
    /\ Count(log[1], "prev") >= 2
    /\ Count(log[1], "node_fail") >= 1

\* the contents of the context nodes in list order, sep between neighbours
ContextWith(sep) ==
    [i \in 1..(2 * Len(nodes1) - 1) |->
        IF i % 2 = 1 THEN Contents[nodes1[(i + 1) \div 2]] ELSE sep]

\* C13 (as stated): the context of the seed question prompt is the contents
\* of the context nodes in list order, separated by a blank line.
C13_BlankLineSeparated ==
    pc[1] = "QUESTION_CHECK" => gen_context[1] = ContextWith("\n\n")

\* C13 (amended): ... separated by a single space.
C13_SpaceSeparated ==
    pc[1] = "QUESTION_CHECK" => gen_context[1] = ContextWith(" ")

C13_Witness ==
    /\ pc[1] = "QUESTION_CHECK"
    /\ Len(nodes1) = 3
    /\ nodes1[1] # nodes1[3]

\* ------------------------------------------------------ the filters alone
\* thresholds a NodeFilter is built with (in halves), answers of the service
Thresholds == {10, threshold, 20}
FilterResponses == {NoScore} \cup (0..MaxScore)
FilterVerdicts == Verdicts \cup {"no", "Yes."}

InitFilters ==
    /\ InitCommon
    /\ PureIdle
    /\ MultiIdle
    /\ docstore \in ConcStores
    /\ max_tries = DefaultMaxTries
    /\ obj = [t \in Tasks |-> t]
    /\ pc = [t \in Tasks |-> "IDLE"]
    /\ nf \in {[threshold |-> th, called |-> FALSE,
                response |-> NoScore, passed |-> FALSE] : th \in Thresholds}
    /\ qf = [called |-> FALSE, verdict |-> NoText, valid |-> TRUE]

\* NodeFilter.afilter on a service answer
NodeFilterCall ==
    /\ \E resp \in FilterResponses :
         nf' = [nf EXCEPT !.called = TRUE, !.response = resp,
                          !.passed = NodeFilter_passed(resp, nf.threshold)]
    /\ UNCHANGED <<docstore, max_tries, ev, obj, pc, merged_node, filter_arg,
                   seed_question, verdict, result, log, req, gen_context,
                   qf, multi,
                   content, checked, pure>>

\* QuestionFilter.afilter on a service answer
QuestionFilterCall ==
    /\ \E v \in FilterVerdicts :
         qf' = [qf EXCEPT !.called = TRUE, !.verdict = v,
                          !.valid = QuestionFilter_afilter(v)]
    /\ UNCHANGED <<docstore, max_tries, ev, obj, pc, merged_node, filter_arg,
                   seed_question, verdict, result, log, req, gen_context,
                   nf, multi,
                   content, checked, pure>>

NextFilters ==
    \/ NodeFilterCall
    \/ QuestionFilterCall

SpecFilters == InitFilters /\ [][NextFilters]_vars

C15_QuestionFilterVerdict ==
    qf.called =>
        /\ qf.valid \in BOOLEAN
        /\ ~qf.valid <=> qf.verdict = "No"
        /\ qf.verdict = NoText => qf.valid

C15_Witness ==
    /\ qf.called
    /\ qf.verdict = "no"
    /\ qf.valid

\* ------------------------------------------------- MultiContextEvolution
\* the SIMILAR neighbours in the stores of the multi-context runs
Succ(n) == (n % NumNodes) + 1
\* node 1 has no similar node, every other node has two, ranked
RankedRel == [n \in Nodes |-> IF n = 1 THEN <<>> ELSE <<Succ(n), Succ(Succ(n))>>]
SimilarRels == {RankedRel}

\* docstore.get_similar(node): the similar nodes, best first
get_similar(rel, node) == rel[node]

\* texts the service answers to the reconciliation and compression prompts
ReconcileOutputs == {<<"m1">>, <<" ", "m2", "\n\n">>}
CompressOutputs == {<<"k1">>, <<"\n\n", "k2", " ">>}

\* a MultiContextEvolution whose internal SimpleEvolution (object 1) has the
\* default max_tries: SimpleEvolution(self.node_filter, self.question_filter)
InitMulti ==
    /\ InitCommon
    /\ PureIdle
    /\ FiltersIdle
    /\ docstore \in ConcStores
    /\ similar \in SimilarRels
    /\ mc = NoMulti
    /\ max_tries = DefaultMaxTries
    /\ obj = [t \in Tasks |-> t]
    /\ pc = [t \in Tasks |-> IF t = 1 THEN "INITIAL" ELSE "IDLE"]

\* aevolve: self._root_node = docstore.get_random_nodes(k=1)[0], then
\* se.aevolve runs to its awaited node filter call
MCStart(t) ==
    /\ pc[t] = "INITIAL"
    /\ \E a \in get_random_nodes, s \in get_random_nodes :
         /\ mc' = [mc EXCEPT !.root_node = a]
         /\ Suspend(t, aevolve_enter(Logged(Ctx(t), "anchor"), s))
    /\ req' = [req EXCEPT ![t] = @ + 1]
    /\ UNCHANGED <<docstore, max_tries, obj, seed_question, verdict, result,
                   gen_context, filters, similar,
                   checked, pure>>

\* await self.se.aevolve(...) hands on a returned question; what se.aevolve
\* raises is not caught
se_returned_or_raised(p) == p \in {"SUCCESS", "EXHAUSTED", "FAILED"}
se_returned(p) == p = "SUCCESS"

\* the node whose similar nodes are looked up: self._root_node
mc_anchor_of_se(m, e) == e.root_node
mc_anchor(m, e) == m.root_node

\* docstore.get_similar(self._root_node)[0]
first_similar_last(sims) == sims[Len(sims)]
first_similar(sims) == sims[1]

\* question = results.generations[0][0].text.strip()
reconciled_question_kept(question, raw) == question
reconciled_question(question, raw) == strip(raw)

\* se.aevolve has returned the seed question: look up the similar node,
\* build the reconciliation prompt and await the service
MCContinue(t) ==
    /\ se_returned(pc[t])
    /\ mc.root_node # None
    /\ LET anchor == mc_anchor(mc, ev[obj[t]])
           sims == get_similar(similar, anchor)
       IN  IF sims = <<>>
           THEN /\ mc' = [mc EXCEPT !.similar_arg = anchor,
                                    !.question = <<result[t]>>]
                /\ log' = [log EXCEPT ![t] = Append(@, "similar")]
                /\ pc' = [pc EXCEPT ![t] = "NO_SIMILAR"]
           ELSE /\ mc' = [mc EXCEPT
                            !.similar_arg = anchor,
                            !.question = <<result[t]>>,
                            !.prompt = [question |-> result[t],
                                        context1 |-> page_content(anchor),
                                        context2 |-> node_str(first_similar(sims))]]
                /\ log' = [log EXCEPT ![t] = Append(Append(@, "similar"), "reconcile")]
                /\ pc' = [pc EXCEPT ![t] = "RECONCILE"]
    /\ UNCHANGED <<docstore, max_tries, ev, obj, merged_node, filter_arg,
                   seed_question, verdict, result, req, gen_context, filters,
                   similar,
                   content, checked, pure>>

\* the reconciliation answer arrives: compress it and return
MCReconciled(t) ==
    /\ pc[t] = "RECONCILE"
    /\ \E raw \in ReconcileOutputs, rawc \in CompressOutputs :
         LET question == reconciled_question(mc.question, raw)
         IN  mc' = [mc EXCEPT !.reconciled = strip(raw),
                              !.question = question,
                              !.compress_in = question,
                              !.compressed = strip(rawc),
                              !.result = strip(rawc)]
    /\ log' = [log EXCEPT ![t] = Append(@, "compress")]
    /\ pc' = [pc EXCEPT ![t] = "MC_SUCCESS"]
    /\ UNCHANGED <<docstore, max_tries, ev, obj, merged_node, filter_arg,
                   seed_question, verdict, result, req, gen_context, filters,
                   similar,
                   content, checked, pure>>

\* an error leaves aevolve: the request has failed
Raise(t, c) ==
    /\ ev' = [ev EXCEPT ![obj[t]] = Fields(raised(c))]
    /\ log' = [log EXCEPT ![t] = raised(c).log]
    /\ pc' = [pc EXCEPT ![t] = "FAILED"]

\* an awaited service call (node filter, question filter, reconciliation)
\* fails: the error leaves aevolve
ServiceError(t) ==
    /\ pc[t] \in {"NODE_CHECK", "QUESTION_CHECK", "RECONCILE"}
    /\ Raise(t, Ctx(t))
    /\ UNCHANGED <<docstore, max_tries, obj, merged_node, filter_arg,
                   seed_question, verdict, result, req, gen_context, filters,
                   multi, content, checked, pure>>

\* the node filter passes and the seed question generation call fails
GenerateError(t) ==
    /\ pc[t] = "NODE_CHECK"
    /\ \E resp \in NodeResponses :
         /\ ~node_rejected(NodeFilter_afilter(resp))
         /\ Raise(t, Logged(Ctx(t), node_event(resp)))
    /\ checked' = [checked EXCEPT ![t] = track(@, filter_arg[t])]
    /\ UNCHANGED <<docstore, max_tries, obj, merged_node, filter_arg,
                   seed_question, verdict, result, req, gen_context, filters,
                   multi, content, pure>>

NextMulti ==
    \/ MCStart(1)
    \/ NodeCheckFail(1)
    \/ NodeCheckPass(1)
    \/ QuestionCheckFail(1)
    \/ QuestionCheckPass(1)
    \/ MCContinue(1)
    \/ MCReconciled(1)
    \/ ServiceError(1)
    \/ GenerateError(1)

SpecMulti == InitMulti /\ [][NextMulti]_vars

\* the internal SimpleEvolution failed: retries exhausted, or a service
\* error before any seed question was accepted
SeedFailed(p, lg) ==
    \/ p = "EXHAUSTED"
    \/ p = "FAILED" /\ Count(lg, "q_pass") = 0

MultiCalls == {"similar", "reconcile", "compress"}

\* C16: when the internal SimpleEvolution fails, the MultiContextEvolution
\* stays failed with that error and makes no similarity lookup, no
\* reconciliation call and no compression call.
C16_SeedFailurePropagates ==
    [][/\ ~(pc[1] \in {"EXHAUSTED", "FAILED"})
       /\ SeedFailed(pc'[1], log'[1]) =>
            /\ Range(log'[1]) \cap MultiCalls = {}
            /\ mc'.similar_arg = None
            /\ mc'.prompt = NoPrompt
            /\ mc'.result = <<>>]_vars

C16_Witness ==
    /\ mc.root_node # None
    /\ pc[1] = "EXHAUSTED"
    /\ tries1 = DefaultMaxTries + 1

\* C17: without a similar node for the anchor the request ends in an error
\* after the seed question was obtained, with no reconciliation and no
\* compression call; with similar nodes only the first one is used.
C17_NoSimilarContext ==
    /\ pc[1] = "NO_SIMILAR" =>
        /\ similar[mc.root_node] = <<>>
        /\ Count(log[1], "q_pass") = 1
        /\ result[1] \in Questions
        /\ Last(log[1]) = "similar"
        /\ Range(log[1]) \cap {"reconcile", "compress"} = {}
        /\ mc.result = <<>>
    /\ pc[1] \in {"RECONCILE", "MC_SUCCESS"} =>
        /\ similar[mc.root_node] # <<>>
        /\ mc.prompt.context2 = node_str(similar[mc.root_node][1])

C17_Witness ==
    /\ pc[1] = "NO_SIMILAR"
    /\ tries1 >= 1
    /\ root1 # mc.root_node

\* C18: a successful MultiContextEvolution samples the anchor, obtains the
\* seed question, looks up the similar node, reconciles once and compresses
\* once, in this order; the compression gets the reconciled question and
\* its answer is the value returned.
C18_MultiOrder ==
    pc[1] = "MC_SUCCESS" =>
        LET lg == log[1]
            k == Len(lg)
        IN  /\ k >= 8
            /\ lg[1] = "anchor"
            /\ lg[2] = "sample"
            /\ SubSeq(lg, k - 4, k) = <<"gen", "q_pass", "similar", "reconcile", "compress">>
            /\ \A e \in {"anchor", "q_pass", "similar", "reconcile", "compress"} :
                  Count(lg, e) = 1
            /\ mc.compress_in = mc.reconciled
            /\ mc.result = mc.compressed
            /\ mc.result \in {<<"k1">>, <<"k2">>}

C18_Witness ==
    /\ pc[1] = "MC_SUCCESS"
    /\ tries1 >= 1
    /\ mc.compress_in = <<"m2">>
    /\ mc.result = <<"k2">>

\* C19: the anchor sampled first is never changed by the internal
\* SimpleEvolution; it is the node whose similar nodes are looked up and
\* whose content is the first context of the reconciliation prompt.
C19_AnchorKept ==
    [][/\ pc[1] # "INITIAL" => mc'.root_node = mc.root_node
       /\ "similar" \in Range(log'[1]) => mc'.similar_arg = mc'.root_node
       /\ pc'[1] \in {"RECONCILE", "MC_SUCCESS"} =>
             mc'.prompt.context1 = page_content(mc'.root_node)]_vars

C19_Witness ==
    /\ pc[1] = "RECONCILE"
    /\ tries1 >= 1
    /\ Count(log[1], "node_fail") >= 1
    /\ mc.root_node # root1
    /\ mc.root_node \notin Range(nodes1)
    /\ mc.similar_arg = mc.root_node

\* C20: the reconciliation prompt gets the seed question, the content of the
\* anchor node as first context and the content of the similar node as
\* second context.
C20_PromptContexts ==
    pc[1] \in {"RECONCILE", "MC_SUCCESS"} =>
        mc.prompt = [question |-> result[1],
                     context1 |-> page_content(mc.root_node),
                     context2 |-> page_content(similar[mc.root_node][1])]

\* ------------------------------------------- failing calls, cancellation
\* the first sampling of a request raises: the anchor's, or the one at the
\* entry of se.aevolve after the anchor was sampled
SampleError(t) ==
    /\ pc[t] = "INITIAL"
    /\ \E a \in get_random_nodes \cup {None} :
         IF a = None
         THEN /\ Raise(t, Ctx(t))
              /\ mc' = mc
         ELSE /\ Raise(t, Logged(Ctx(t), "anchor"))
              /\ mc' = [mc EXCEPT !.root_node = a]
    /\ req' = [req EXCEPT ![t] = @ + 1]
    /\ UNCHANGED <<docstore, max_tries, obj, merged_node, filter_arg,
                   seed_question, verdict, result, gen_context, filters,
                   similar, content, checked, pure>>

\* the node filter rejects and the resampling raises, or the resampling
\* returns and the sampling at the entry of the retried aevolve raises
ResampleError(t) ==
    /\ pc[t] = "NODE_CHECK"
    /\ \E resp \in NodeResponses, s \in get_random_nodes \cup {None} :
         LET c == Logged(Ctx(t), node_event(resp))
         IN  /\ node_rejected(NodeFilter_afilter(resp))
             /\ IF s = None
                THEN Raise(t, c)
                ELSE /\ c.tries = 0
                     /\ Raise(t, resample_nodes(c, s))
    /\ UNCHANGED <<docstore, max_tries, obj, merged_node, filter_arg,
                   seed_question, verdict, result, req, gen_context, filters,
                   multi, content, checked, pure>>

\* the question filter rejects and the k-th store call of
\* _get_more_adjacent_nodes raises: nodes and _root_node are still as before
ExpandError(t) ==
    /\ pc[t] = "QUESTION_CHECK"
    /\ \E v \in Verdicts, s \in get_random_nodes :
         LET c == Logged(Ctx(t), "q_fail")
             calls == get_more_adjacent_nodes(c, docstore, s).log
         IN  /\ ~QuestionFilter_afilter(v)
             /\ verdict' = [verdict EXCEPT ![t] = v]
             /\ \E k \in 1..(Len(calls) - Len(c.log)) :
                  Raise(t, [c EXCEPT !.log = SubSeq(calls, 1, Len(c.log) + k - 1)])
    /\ UNCHANGED <<docstore, max_tries, obj, merged_node, filter_arg,
                   seed_question, result, req, gen_context, filters,
                   multi, content, checked, pure>>

\* se.aevolve has returned and docstore.get_similar raises
SimilarError(t) ==
    /\ se_returned(pc[t])
    /\ mc.root_node # None
    /\ mc' = [mc EXCEPT !.similar_arg = mc_anchor(mc, ev[obj[t]]),
                        !.question = <<result[t]>>]
    /\ Raise(t, Ctx(t))
    /\ UNCHANGED <<docstore, max_tries, obj, merged_node, filter_arg,
                   seed_question, verdict, result, req, gen_context, filters,
                   similar, content, checked, pure>>

\* the reconciliation answer arrives and the compression call raises
CompressError(t) ==
    /\ pc[t] = "RECONCILE"
    /\ \E raw \in ReconcileOutputs :
         LET question == reconciled_question(mc.question, raw)
         IN  mc' = [mc EXCEPT !.reconciled = strip(raw),
                              !.question = question,
                              !.compress_in = question]
    /\ Raise(t, Ctx(t))
    /\ UNCHANGED <<docstore, max_tries, obj, merged_node, filter_arg,
                   seed_question, verdict, result, req, gen_context, filters,
                   similar, content, checked, pure>>

\* the task is cancelled while it is suspended at an awaited call
Cancel(t) ==
    /\ pc[t] \in {"NODE_CHECK", "QUESTION_CHECK", "RECONCILE"}
    /\ log' = [log EXCEPT ![t] = Append(@, "cancel")]
    /\ pc' = [pc EXCEPT ![t] = "CANCELLED"]
    /\ UNCHANGED <<docstore, max_tries, ev, obj, merged_node, filter_arg,
                   seed_question, verdict, result, req, gen_context, filters,
                   multi, content, checked, pure>>

InitErrors ==
    /\ InitCommon
    /\ FiltersIdle
    /\ PureIdle
    /\ docstore \in ConcStores
    /\ similar = RankedRel
    /\ mc = NoMulti
    /\ max_tries = DefaultMaxTries
    /\ obj = [t \in Tasks |-> t]
    /\ pc = [t \in Tasks |-> IF t = 1 THEN "INITIAL" ELSE "IDLE"]

NextErrors ==
    \/ NextMulti
    \/ SampleError(1)
    \/ ResampleError(1)
    \/ ExpandError(1)
    \/ SimilarError(1)
    \/ CompressError(1)
    \/ Cancel(1)

\* a MultiContextEvolution request whose calls may fail or be cancelled
SpecErrors == InitErrors /\ [][NextErrors]_vars

\* a MultiContextEvolution built with its own max_tries
InitConfigured ==
    /\ InitCommon
    /\ FiltersIdle
    /\ PureIdle
    /\ docstore = [doc |-> DocOf({})]
    /\ similar = RankedRel
    /\ mc \in {[NoMulti EXCEPT !.max_tries = n] : n \in 0..MaxTriesBound}
    /\ max_tries = DefaultMaxTries
    /\ obj = [t \in Tasks |-> t]
    /\ pc = [t \in Tasks |-> IF t = 1 THEN "INITIAL" ELSE "IDLE"]

SpecConfigured == InitConfigured /\ [][NextMulti]_vars

\* a SimpleEvolution request with the history of the passed nodes kept
InitTrack ==
    /\ InitCommon
    /\ FiltersIdle
    /\ MultiIdle
    /\ gq = NoQuery
    /\ mb = NoBatches
    /\ checked = [t \in Tasks |-> {}]
    /\ docstore \in Stores
    /\ max_tries \in 0..MaxTriesBound
    /\ obj = [t \in Tasks |-> t]
    /\ pc = [t \in Tasks |-> IF t = 1 THEN "INITIAL" ELSE "IDLE"]

SpecTrack == InitTrack /\ [][Next]_vars

\* a SimpleEvolution request whose awaited calls complete, and whose node
\* check does not fail for ever
InitFair ==
    /\ InitCommon
    /\ FiltersIdle
    /\ MultiIdle
    /\ PureIdle
    /\ docstore \in ConcStores
    /\ max_tries \in 0..MaxTriesBound
    /\ obj = [t \in Tasks |-> t]
    /\ pc = [t \in Tasks |-> IF t = 1 THEN "INITIAL" ELSE "IDLE"]

SpecFair ==
    /\ InitFair
    /\ [][Next]_vars
    /\ WF_vars(Next)
    /\ SF_vars(NodeCheckPass(1))

\* ------------------------------------------------------ the graph queries
\* the variables of the evolutions
evolution == <<docstore, max_tries, ev, obj, pc, merged_node, filter_arg,
               seed_question, verdict, result, log, req, gen_context,
               content, checked>>

\* arguments of the queries
IdLists == {<<>>, <<"a">>, <<"a", "c">>, <<"d", "b">>}
TargetFilters ==
    {NoTargetFilter,
     [NoTargetFilter EXCEPT !.label = "chunk"],
     [NoTargetFilter EXCEPT !.property_key = "score", !.property_value = "5",
                            !.comparison = "gt"],
     [label |-> "doc", property_key |-> "score", property_value |-> "5",
      comparison |-> "eq"],
     [NoTargetFilter EXCEPT !.property_key = "score", !.property_value = "5",
                            !.comparison = "ne"]}

InitGraph ==
    /\ InitCommon
    /\ FiltersIdle
    /\ MultiIdle
    /\ PureIdle
    /\ docstore \in ConcStores
    /\ max_tries = DefaultMaxTries
    /\ obj = [t \in Tasks |-> t]
    /\ pc = [t \in Tasks |-> "IDLE"]

\* a filter_nodes query on the nodes of the context
FilterNodes ==
    /\ gq.op = "none"
    /\ \E ids \in IdLists, label \in {NoArg} \cup NodeType,
          level \in {NoArg} \cup NodeLevel,
          property_key \in {NoArg, "topic"}, property_value \in {NoArg, "x", "y"} :
         LET a == [NoQuery EXCEPT !.op = "filter_nodes", !.ids = ids,
                                  !.label = label, !.level = level,
                                  !.property_key = property_key,
                                  !.property_value = property_value]
         IN  gq' = [a EXCEPT !.result = resolve_filter_nodes(gq.nodes, a)]
    /\ UNCHANGED <<evolution, filters, multi, mb>>

\* a relationships query on one node of the context
ResolveRelationships ==
    /\ gq.op = "none"
    /\ \E self \in {"a", "b", "d"}, label \in {NoArg, "SIMILAR", "NEXT"},
          property_key \in {NoArg, "score"}, property_value \in {NoArg, "5", "7"},
          comparison \in {NoArg, "gt", "lt", "eq", "ge"},
          target_filter \in TargetFilters :
         LET a == [NoQuery EXCEPT !.op = "relationships", !.self = self,
                                  !.label = label,
                                  !.property_key = property_key,
                                  !.property_value = property_value,
                                  !.comparison = comparison,
                                  !.target_filter = target_filter]
         IN  gq' = IF invalid_comparison(a)
                   THEN [a EXCEPT !.error = TRUE]
                   ELSE [a EXCEPT !.result =
                            resolve_relationships(self, gq.relationships, a)]
    /\ UNCHANGED <<evolution, filters, multi, mb>>

NextGraph ==
    \/ FilterNodes
    \/ ResolveRelationships

SpecGraph == InitGraph /\ [][NextGraph]_vars

\* ------------------------------------------------------------ the batches
InitBatches ==
    /\ InitCommon
    /\ FiltersIdle
    /\ MultiIdle
    /\ docstore \in ConcStores
    /\ max_tries = DefaultMaxTries
    /\ obj = [t \in Tasks |-> t]
    /\ pc = [t \in Tasks |-> "IDLE"]
    /\ NoHistory
    /\ gq = NoQuery
    /\ mb \in {[NoBatches EXCEPT !.total_size = n, !.batch_size = b] :
                 n \in 0..MaxTotalSize, b \in 1..MaxBatchSize}

\* get_batches on a dataset of total_size rows
MakeBatches ==
    /\ ~mb.called
    /\ mb' = [mb EXCEPT !.called = TRUE,
                        !.batches = get_batches(mb.total_size, mb.batch_size)]
    /\ UNCHANGED <<evolution, filters, multi, gq>>

NextBatches == MakeBatches

SpecBatches == InitBatches /\ [][NextBatches]_vars

\* ------------------------------------------------- properties, continued
\* C21: a failing service or store call ends the request with that error at
\* once: the failed request takes no further step, so no further service or
\* store call is made, and the failure leaves the retry counter as it was.
C21_ErrorEndsRequest ==
    [][/\ pc[1] # "FAILED"
       /\ pc'[1] = "FAILED" =>
            /\ ev'[obj[1]].tries = ev[obj[1]].tries
            /\ Last(log'[1]) = "error"
            /\ Count(log'[1], "error") = 1
            /\ result' = result
            /\ mc'.result = <<>>]_vars

C21_Witness ==
    /\ pc[1] = "FAILED"
    /\ tries1 = 1
    /\ QFails = 2
    /\ SubSeq(log[1], Len(log[1]) - 3, Len(log[1])) = <<"q_fail", "prev", "next", "error">>

\* C22: no step of an evolution and no cancellation changes the store's
\* documents, its similarity relationships or the content of a stored node;
\* merging leaves the content of the merged nodes as it was.
C22_StoreUnchanged ==
    [][/\ docstore' = docstore
       /\ similar' = similar
       /\ content' = content
       /\ \A n \in Nodes : content'[n] = page_content(n)]_vars

C22_Witness ==
    /\ pc[1] = "CANCELLED"
    /\ Len(nodes1) >= 3
    /\ Len(merged_node[1]) >= 5
    /\ content[nodes1[1]] = page_content(nodes1[1])

\* C23: as long as every node check of the request has failed, the request
\* is neither successful nor exhausted and its retry counter is still 0,
\* whatever max_tries is and however many node checks have failed.
C23_ResamplingUnbounded ==
    Count(log[1], "node_pass") = 0 =>
        /\ pc[1] \in {"INITIAL", "NODE_CHECK"}
        /\ tries1 = 0

C23_Witness ==
    /\ Count(log[1], "node_pass") = 0
    /\ Count(log[1], "node_fail") = MaxNodeFails
    /\ pc[1] = "NODE_CHECK"
    /\ max_tries = 0
    /\ tries1 = 0

\* C24: filter_nodes returns exactly the nodes that meet every criterion
\* given (ids, label, level, property key and value), in the order of the
\* node list.
NodeMeets(node, a) ==
    /\ a.ids # <<>> => node.id \in Range(a.ids)
    /\ a.label # NoArg => node.label = a.label
    /\ a.level # NoArg => node.level = a.level
    /\ (a.property_key # NoArg /\ a.property_value # NoArg) =>
          /\ a.property_key \in DOMAIN node.properties
          /\ node.properties[a.property_key] = a.property_value

C24_EveryCriterion ==
    gq.op = "filter_nodes" =>
        gq.result = SelectSeq(gq.nodes, LAMBDA node : NodeMeets(node, gq))

\* C25: a relationships query returns only relationships whose source is
\* the queried node and that meet the label, the property comparison and
\* the target filter given, in their original order; the relationship list
\* is left as it was; with a property key and value the query is an error
\* exactly when the comparison is none of gt, lt, eq.
Compares(comparison, x, y) ==
    \/ comparison = "gt" /\ float(x) > float(y)
    \/ comparison = "lt" /\ float(x) < float(y)
    \/ comparison = "eq" /\ x = y

RelMeets(rel, a) ==
    /\ rel.source.id = a.self
    /\ a.label # NoArg => rel.label = a.label
    /\ (a.property_key # NoArg /\ a.property_value # NoArg) =>
          /\ a.property_key \in DOMAIN rel.properties
          /\ Compares(a.comparison, rel.properties[a.property_key], a.property_value)
    /\ a.target_filter.label # NoArg => rel.target.label = a.target_filter.label
    /\ a.target_filter.property_key # NoArg =>
          /\ a.target_filter.property_key \in DOMAIN rel.target.properties
          /\ Compares(a.target_filter.comparison,
                      rel.target.properties[a.target_filter.property_key],
                      a.target_filter.property_value)

InvalidComparison(a) ==
    /\ a.property_key # NoArg
    /\ a.property_value # NoArg
    /\ a.comparison \notin {"gt", "lt", "eq"}

C25_RelationshipQuery ==
    gq.op = "relationships" =>
        /\ gq.relationships = Relationships
        /\ InvalidComparison(gq) <=> gq.error
        /\ ~InvalidComparison(gq) =>
             /\ \A i \in 1..Len(gq.result) : RelMeets(gq.result[i], gq)
             /\ gq.result = SelectSeq(gq.relationships,
                                      LAMBDA rel : rel \in Range(gq.result))

C25_Witness ==
    /\ gq.op = "relationships"
    /\ gq.self = "a"
    /\ gq.label = "SIMILAR"
    /\ gq.comparison = "gt"
    /\ gq.property_value = "5"
    /\ gq.target_filter.label = "chunk"
    /\ Len(gq.result) = 1
    /\ gq.result[1].id = "r1"

\* C26: with awaited calls that complete and a node check that does not fail
\* for ever, a request started with retry counter 0 ends in SUCCESS or
\* EXHAUSTED, after at most max_tries + 1 seed generations and at most
\* max_tries + 1 question checks.
C26_Terminates ==
    /\ <>(pc[1] \in {"SUCCESS", "EXHAUSTED"})
    /\ [](/\ Count(log[1], "gen") <= max_tries + 1
          /\ Count(log[1], "q_fail") + Count(log[1], "q_pass") <= max_tries + 1)

C26_Witness ==
    /\ pc[1] = "EXHAUSTED"
    /\ max_tries = MaxTriesBound
    /\ Count(log[1], "gen") = max_tries + 1
    /\ Count(log[1], "q_fail") = max_tries + 1
    /\ Count(log[1], "node_fail") >= 1

\* C27: the context node list holds no node twice and is a run of
\* consecutive nodes of one document, in document order.
C27_ContiguousNoDuplicates ==
    /\ \A i, j \in 1..Len(nodes1) : i # j => nodes1[i] # nodes1[j]
    /\ \A i \in 1..(Len(nodes1) - 1) :
          /\ nodes1[i + 1] = nodes1[i] + 1
          /\ docstore.doc[nodes1[i + 1]] = docstore.doc[nodes1[i]]

\* C28: every node whose content is in the context of a seed question
\* prompt has passed a node check earlier in the same request.
C28_PromptNodesChecked ==
    pc[1] = "QUESTION_CHECK" =>
        \A n \in Nodes :
            (\E i \in 1..Len(gen_context[1]) : gen_context[1][i] = Contents[n])
                => n \in checked[1]

\* C29: the seed generation inside a MultiContextEvolution built with
\* max_tries = N fails after N + 1 question check failures, and only then.
C29_ConfiguredBound ==
    /\ QFails >= mc.max_tries + 1 => pc[1] = "EXHAUSTED"
    /\ pc[1] = "EXHAUSTED" => QFails = mc.max_tries + 1

\* C30: the ranges of make_batches, one after the other, are 0..total_size-1
\* in increasing order; no range is empty or longer than batch_size, and
\* only the last one may be shorter than batch_size.
RECURSIVE Flatten(_)
Flatten(seqs) ==
    IF seqs = <<>> THEN <<>> ELSE Head(seqs) \o Flatten(Tail(seqs))

C30_BatchesPartition ==
    mb.called =>
        /\ Flatten(mb.batches) = [i \in 1..mb.total_size |-> i - 1]
        /\ \A k \in 1..Len(mb.batches) :
              /\ Len(mb.batches[k]) >= 1
              /\ Len(mb.batches[k]) <= mb.batch_size
              /\ k < Len(mb.batches) => Len(mb.batches[k]) = mb.batch_size

C30_Witness ==
    /\ mb.called
    /\ mb.total_size = 7
    /\ mb.batch_size = 3
    /\ Len(mb.batches) = 3
    /\ mb.batches[3] = <<6>>

====
